---- MODULE Spec2Model ----
(***************************************************************************)
(* Model of src/app.py: the SageMaker prediction gateway.                  *)
(*                                                                         *)
(* Numbers: time is counted in whole time-units (seconds); a prediction is *)
(* carried in hundredths (0.7 is 70), and the response bodies of the       *)
(* remote endpoint are decimal numerals with at most two fractional        *)
(* digits, so that float() of a body is exact in hundredths.               *)
(* A request is represented by its feature count: the feature values only  *)
(* reach the opaque remote endpoint (csv_data, line 41).                   *)
(***************************************************************************)
EXTENDS Integers, Sequences, FiniteSets, TLC

VARIABLES
    ENDPOINT_NAME,  \* module global, line 13
    runtime,        \* module global, line 14: the client handle, or "None"
    requests,       \* per client: the /predict request it has made, if any
    probe           \* the reply to the latest GET /health or GET /ready

vars == <<ENDPOINT_NAME, runtime, requests, probe>>

----------------------------------------------------------------------------
(* Bounds of the model *)

\* feature counts of the requests range over 0..MaxFeatures
MaxFeatures == 18
\* elapsed times of a successful remote call range over SlowThreshold..MaxElapsed
MaxElapsed == 6

\* the clients that post one /predict request each, concurrently
Clients == {"c1", "c2"}

----------------------------------------------------------------------------
(* Program constants *)

FeatureCount == 17
max_retries == 3
SlowThreshold == 5
SlowPause == 1
\* 0.7 and 0.3 of line 96, in hundredths
HighThreshold == 70
MediumThreshold == 30

EndpointNameValue == "shoppers-xgboost-endpoint"
ClientHandle == "sagemaker-runtime"
None == "None"
Version == "v3.0-cicd"

----------------------------------------------------------------------------
(* The environment: what one remote call can produce *)

\* response bodies of the remote endpoint, as character sequences
Bodies ==
    { <<"0", ".", "8", "5", "\n">>,
      <<"0", ".", "5">>,
      <<"0", ".", "1">>,
      <<"0", ".", "7">>,
      <<"0", ".", "3">>,
      <<"e", "r", "r">> }

NoBody == <<>>

Outcome(kind, elapsed, body, code, text) ==
    [kind |-> kind, elapsed |-> elapsed, body |-> body, code |-> code, text |-> text]

NoOutcome == Outcome("none", 0, NoBody, "", "")

\* invoke_endpoint returned a response after `elapsed` time-units
Responses == { Outcome("response", e, b, "", "") : e \in SlowThreshold..MaxElapsed, b \in Bodies }
\* invoke_endpoint raised botocore's ClientError with this error code
ClientErrors == { Outcome("ClientError", 0, NoBody, c, "") : c \in {"ModelError", "ValidationError"} }
\* invoke_endpoint raised any other exception, with this text
OtherErrors == { Outcome("Exception", 0, NoBody, "", t) : t \in {"connection reset"} }
\* runtime is None: the attribute lookup of line 46 raises, no call is made
NoneError == Outcome("Exception", 0, NoBody, "", "NoneType has no attribute invoke_endpoint")

Outcomes == Responses \cup ClientErrors \cup OtherErrors

----------------------------------------------------------------------------
(* HTTP results *)

Result(status, msg, expected, got, code, text, prediction, confidence) ==
    [status |-> status, msg |-> msg, expected |-> expected, got |-> got,
     code |-> code, text |-> text, prediction |-> prediction, confidence |-> confidence]

NoResult == Result(0, "", 0, 0, "", "", 0, "")

\* HTTPException(status_code, detail)
HTTPException(status, msg, expected, got, code, text) ==
    Result(status, msg, expected, got, code, text, 0, "")

\* PredictionResponse(prediction, confidence), sent with status 200
PredictionResponse(prediction, confidence) ==
    Result(200, "", 0, 0, "", "", prediction, confidence)

\* float() raised ValueError in predict: nothing handles it, the framework answers 500
UnhandledValueError == Result(500, "Internal Server Error", 0, 0, "", "", 0, "")

----------------------------------------------------------------------------
(* Pure functions *)

IsSpace(ch) == ch \in {" ", "\n", "\t", "\r"}

RECURSIVE LStrip(_)
LStrip(s) == IF s # <<>> /\ IsSpace(Head(s)) THEN LStrip(Tail(s)) ELSE s

RECURSIVE RStrip(_)
RStrip(s) ==
    IF s # <<>> /\ IsSpace(s[Len(s)]) THEN RStrip(SubSeq(s, 1, Len(s) - 1)) ELSE s

\* str.strip() of line 91
Strip(s) == RStrip(LStrip(s))

Digit(ch) ==
    CASE ch = "0" -> 0 [] ch = "1" -> 1 [] ch = "2" -> 2 [] ch = "3" -> 3
      [] ch = "4" -> 4 [] ch = "5" -> 5 [] ch = "6" -> 6 [] ch = "7" -> 7
      [] ch = "8" -> 8 [] ch = "9" -> 9 [] OTHER -> -1

IsDigits(s) == \A i \in 1..Len(s) : Digit(s[i]) >= 0

RECURSIVE DigitsValue(_)
DigitsValue(s) ==
    IF s = <<>> THEN 0
    ELSE 10 * DigitsValue(SubSeq(s, 1, Len(s) - 1)) + Digit(s[Len(s)])

\* the fractional digits (at most two) in hundredths
FracHundredths(s) == IF Len(s) = 1 THEN 10 * Digit(s[1]) ELSE DigitsValue(s)

ValueError == [ok |-> FALSE, val |-> 0]

\* float() of line 92 on decimal numerals: [sign] digits [. digits] or
\* [sign] . digits, surrounding white space ignored; anything else raises
\* ValueError. The value is in hundredths.
ParseFloat(s) ==
    LET t    == Strip(s)
        neg  == t # <<>> /\ t[1] = "-"
        u    == IF t # <<>> /\ t[1] \in {"-", "+"} THEN Tail(t) ELSE t
        dots == {i \in 1..Len(u) : u[i] = "."}
        d    == IF dots = {} THEN Len(u) + 1 ELSE CHOOSE i \in dots : TRUE
        ip   == SubSeq(u, 1, d - 1)
        fp   == SubSeq(u, d + 1, Len(u))
        mag  == 100 * DigitsValue(ip) + FracHundredths(fp)
    IN  IF Cardinality(dots) > 1 \/ Len(ip) + Len(fp) = 0
           \/ ~IsDigits(ip) \/ ~IsDigits(fp)
        THEN ValueError
        ELSE [ok |-> TRUE, val |-> IF neg THEN 0 - mag ELSE mag]

\* faulty variant of Confidence: the thresholds are inclusive
ConfidenceInclusive(prediction_value) ==
    IF prediction_value >= HighThreshold THEN "high"
    ELSE IF prediction_value >= MediumThreshold THEN "medium"
    ELSE "low"

\* line 96
Confidence(prediction_value) ==
    IF prediction_value > HighThreshold THEN "high"
    ELSE IF prediction_value > MediumThreshold THEN "medium"
    ELSE "low"

\* faulty variant of Backoff: linear instead of exponential
BackoffLinear(attempt) == 2 * attempt

\* 2 ** attempt of lines 62 and 74
Backoff(attempt) == 2 ^ attempt

\* faulty variant of ParseAndRespond: a body that does not parse counts as 0.0
ParseAndRespondCoerce(response) ==
    LET p == ParseFloat(response.body)
        v == IF p.ok THEN p.val ELSE 0
    IN  PredictionResponse(v, Confidence(v))

\* lines 90-101: the rest of predict once the controller has returned a response
ParseAndRespond(response) ==
    LET p == ParseFloat(response.body)
    IN  IF p.ok THEN PredictionResponse(p.val, Confidence(p.val))
        ELSE UnhandledValueError

\* faulty variant of ValidationFailure: the detail repeats the expected count
ValidationFailureWrongCount(n) ==
    HTTPException(400, "Expected features, got", FeatureCount, FeatureCount, "", "")

\* lines 81-85
ValidationFailure(n) ==
    HTTPException(400, "Expected features, got", FeatureCount, n, "", "")

ControllerStep(act, pause, exc) == [act |-> act, pause |-> pause, exc |-> exc]

\* faulty variant of OnResponse: a response taking exactly the threshold is slow
OnResponseInclusive(attempt, o) ==
    IF o.elapsed >= SlowThreshold /\ attempt < max_retries - 1
    THEN ControllerStep("sleep", SlowPause, NoResult)
    ELSE ControllerStep("return", 0, NoResult)

\* faulty variant of OnResponse: a slow response is discarded on every attempt
OnResponseAlwaysDiscard(attempt, o) ==
    IF o.elapsed > SlowThreshold
    THEN ControllerStep("sleep", SlowPause, NoResult)
    ELSE ControllerStep("return", 0, NoResult)

\* lines 51-57: invoke_endpoint returned
OnResponse(attempt, o) ==
    IF o.elapsed > SlowThreshold /\ attempt < max_retries - 1
    THEN ControllerStep("sleep", SlowPause, NoResult)
    ELSE ControllerStep("return", 0, NoResult)

\* faulty variant of OnClientError: every error code is retried
OnClientErrorRetryAll(attempt, o) ==
    IF attempt < max_retries - 1
    THEN ControllerStep("sleep", Backoff(attempt), NoResult)
    ELSE ControllerStep("raise", 0,
                        HTTPException(503, "Endpoint error:", 0, 0, o.code, ""))

\* faulty variant of OnClientError: the last attempt is retried too
OnClientErrorOffByOne(attempt, o) ==
    IF o.code = "ModelError" /\ attempt < max_retries
    THEN ControllerStep("sleep", Backoff(attempt), NoResult)
    ELSE ControllerStep("raise", 0,
                        HTTPException(503, "Endpoint error:", 0, 0, o.code, ""))

\* lines 59-67: invoke_endpoint raised ClientError
OnClientError(attempt, o) ==
    IF o.code = "ModelError" /\ attempt < max_retries - 1
    THEN ControllerStep("sleep", Backoff(attempt), NoResult)
    ELSE ControllerStep("raise", 0,
                        HTTPException(503, "Endpoint error:", 0, 0, o.code, ""))

\* faulty variant of OnException: on the last attempt the error is raised again
\* as it came, and the framework answers for it
OnExceptionReraise(attempt, o) ==
    IF attempt = max_retries - 1
    THEN ControllerStep("raise", 0,
                        Result(500, "Internal Server Error", 0, 0, "", o.text, 0, ""))
    ELSE ControllerStep("sleep", Backoff(attempt), NoResult)

\* faulty variant of OnException: the last attempt is not recognised
OnExceptionOffByOne(attempt, o) ==
    IF attempt = max_retries
    THEN ControllerStep("raise", 0,
                        HTTPException(500, "Unexpected error:", 0, 0, "", o.text))
    ELSE ControllerStep("sleep", Backoff(attempt), NoResult)

\* faulty variant of OnException: the first failure is reported at once
OnExceptionNoRetry(attempt, o) ==
    ControllerStep("raise", 0,
                   HTTPException(500, "Unexpected error:", 0, 0, "", o.text))

\* lines 68-74: invoke_endpoint raised another exception
OnException(attempt, o) ==
    IF attempt = max_retries - 1
    THEN ControllerStep("raise", 0,
                        HTTPException(500, "Unexpected error:", 0, 0, "", o.text))
    ELSE ControllerStep("sleep", Backoff(attempt), NoResult)

\* one iteration of the loop of lines 43-74, on the outcome o of its call
Iteration(attempt, o) ==
    CASE o.kind = "response"    -> OnResponse(attempt, o)
      [] o.kind = "ClientError" -> OnClientError(attempt, o)
      [] o.kind = "Exception"   -> OnException(attempt, o)

\* line 76: the loop ended without a return or a raise
Exhausted == HTTPException(503, "Endpoint unavailable after retries", 0, 0, "", "")

\* what the attempt is remembered as
Tag(o) == IF o.kind = "ClientError" THEN o.code ELSE o.kind

----------------------------------------------------------------------------
(* Health Reporter *)

Reply(op, code, status, version, endpoint, error) ==
    [op |-> op, code |-> code, status |-> status, version |-> version,
     endpoint |-> endpoint, error |-> error]

NoReply == Reply("none", 0, "", "", "", "")

\* faulty variant of HealthReply: the version is left out
HealthReplyNoVersion == Reply("health", 200, "healthy", "", "", "")

\* lines 24-27
HealthReply == Reply("health", 200, "healthy", Version, "", "")

\* faulty variant of ReadyReply: the endpoint identity is not looked at
ReadyReplyHandleOnly(rt, name) ==
    IF rt # None
    THEN Reply("ready", 200, "ready", "", name, "")
    ELSE Reply("ready", 503, "not ready", "", "", "503: {'status': 'not ready'}")

\* lines 29-37: the HTTPException of line 35 is caught at line 36 and raised
\* again with its text as "error"
ReadyReply(rt, name) ==
    IF rt # None /\ name # ""
    THEN Reply("ready", 200, "ready", "", name, "")
    ELSE Reply("ready", 503, "not ready", "", "", "503: {'status': 'not ready'}")

----------------------------------------------------------------------------
(* State *)

Request(pc, n, attempt, calls, pauses, hist, last, ctl, result) ==
    [pc |-> pc, n |-> n, attempt |-> attempt, calls |-> calls, pauses |-> pauses,
     hist |-> hist, last |-> last, ctl |-> ctl, result |-> result]

\* no request made yet
Idle == Request("idle", 0, 0, 0, <<>>, <<>>, NoOutcome, "", NoResult)

\* the deployment of lines 13-14
Init ==
    /\ ENDPOINT_NAME = EndpointNameValue
    /\ runtime = ClientHandle
    /\ requests = [c \in Clients |-> Idle]
    /\ probe = NoReply

\* readiness and the rest as functions of the configuration they read
InitConfig ==
    /\ ENDPOINT_NAME \in {EndpointNameValue, ""}
    /\ runtime \in {ClientHandle, None}
    /\ requests = [c \in Clients |-> Idle]
    /\ probe = NoReply

----------------------------------------------------------------------------
(* Operations *)

\* faulty variant of Runnable: the handlers share one event loop, which a
\* time.sleep of any request holds
RunnableOneLoop(who) == \A d \in Clients \ {who} : requests[d].pc # "sleep"

\* lines 25, 30, 79: the handlers are plain functions (def, not async def), so
\* each request runs in a worker thread of its own and the time.sleep of lines
\* 54, 62, 74 holds only the thread of the request that called it
Runnable(who) == TRUE

\* GET /health
health ==
    /\ Runnable("health")
    /\ probe' = HealthReply
    /\ UNCHANGED <<ENDPOINT_NAME, runtime, requests>>

\* faulty variant of ready: the probe creates the client handle again
readyRecreatesClient ==
    /\ Runnable("ready")
    /\ probe' = ReadyReply(runtime, ENDPOINT_NAME)
    /\ runtime' = ClientHandle
    /\ UNCHANGED <<ENDPOINT_NAME, requests>>

\* GET /ready
ready ==
    /\ Runnable("ready")
    /\ probe' = ReadyReply(runtime, ENDPOINT_NAME)
    /\ UNCHANGED <<ENDPOINT_NAME, runtime, requests>>

\* POST /predict, lines 79-88: validation, then the controller is entered
predict(c) ==
    /\ requests[c].pc = "idle"
    /\ Runnable(c)
    /\ \E n \in 0..MaxFeatures :
         requests' = [requests EXCEPT ![c] =
            IF n # FeatureCount
            THEN [@ EXCEPT !.pc = "done", !.n = n, !.result = ValidationFailure(n)]
            ELSE [@ EXCEPT !.pc = "attempt", !.n = n, !.ctl = "running"]]
    /\ UNCHANGED <<ENDPOINT_NAME, runtime, probe>>

\* what line 46 can produce: with no client handle the attribute lookup raises
CallOutcomes == IF runtime = None THEN {NoneError} ELSE Outcomes

\* faulty variant of AfterAttempt: the response of the attempt before, when
\* there is one, is the one handed back
AfterAttemptStale(r, o) ==
    LET s  == Iteration(r.attempt, o)
        r1 == [r EXCEPT !.calls = IF runtime = None THEN @ ELSE @ + 1,
                        !.hist = Append(@, Tag(o)),
                        !.last = o]
        kept == IF r.last.kind = "response" THEN r.last ELSE o
    IN  CASE s.act = "sleep" ->
               [r1 EXCEPT !.pc = "sleep", !.pauses = Append(@, s.pause)]
          [] s.act = "return" ->
               [r1 EXCEPT !.pc = "done", !.ctl = "returned", !.result = ParseAndRespond(kept)]
          [] s.act = "raise" ->
               [r1 EXCEPT !.pc = "done", !.ctl = "raised", !.result = s.exc]

\* the request after one loop iteration whose call had outcome o
AfterAttempt(r, o) ==
    LET s  == Iteration(r.attempt, o)
        r1 == [r EXCEPT !.calls = IF runtime = None THEN @ ELSE @ + 1,
                        !.hist = Append(@, Tag(o)),
                        !.last = o]
    IN  CASE s.act = "sleep" ->
               [r1 EXCEPT !.pc = "sleep", !.pauses = Append(@, s.pause)]
          [] s.act = "return" ->
               [r1 EXCEPT !.pc = "done", !.ctl = "returned", !.result = ParseAndRespond(o)]
          [] s.act = "raise" ->
               [r1 EXCEPT !.pc = "done", !.ctl = "raised", !.result = s.exc]

\* one iteration of the retry loop: the remote call and what follows it, up to
\* the pause, or to the end of the request
\* the same, for the outcome o of the call
call_with_outcome(c, o) ==
    /\ requests[c].pc = "attempt"
    /\ Runnable(c)
    /\ o \in CallOutcomes
    /\ requests' = [requests EXCEPT ![c] = AfterAttempt(@, o)]
    /\ UNCHANGED <<ENDPOINT_NAME, runtime, probe>>

invoke_endpoint(c) == \E o \in CallOutcomes : call_with_outcome(c, o)

\* faulty variant of AfterSleep: the attempt index is not advanced
AfterSleepNoAdvance(r) == [r EXCEPT !.pc = "attempt"]

\* the request when time.sleep returns: the next iteration, or line 76
AfterSleep(r) ==
    IF r.attempt + 1 < max_retries
    THEN [r EXCEPT !.pc = "attempt", !.attempt = @ + 1]
    ELSE [r EXCEPT !.pc = "done", !.attempt = @ + 1, !.ctl = "raised", !.result = Exhausted]

\* time.sleep of lines 54, 62, 74 returns
sleep_returns(c) ==
    /\ requests[c].pc = "sleep"
    /\ requests' = [requests EXCEPT ![c] = AfterSleep(@)]
    /\ UNCHANGED <<ENDPOINT_NAME, runtime, probe>>

Next ==
    \/ health
    \/ ready
    \/ \E c \in Clients : predict(c)
    \/ \E c \in Clients : invoke_endpoint(c)
    \/ \E c \in Clients : sleep_returns(c)

Spec == Init /\ [][Next]_vars

SpecConfig == InitConfig /\ [][Next]_vars

----------------------------------------------------------------------------
(* Properties *)

\* the request of client c has been accepted by the controller and is over
Returned(c) == requests[c].pc = "done" /\ requests[c].ctl = "returned"
Raised(c) == requests[c].pc = "done" /\ requests[c].ctl = "raised"

\* the latest attempt of c was not the last one allowed
NonFinal(c) == Len(requests[c].hist) < max_retries

\* the request of c is between two attempts: pausing, or about to call again
Retrying(c) ==
    LET r == requests[c]
    IN  /\ Len(r.pauses) = Len(r.hist)
        /\ r.result = NoResult
        /\ \/ r.pc = "sleep" /\ r.attempt = Len(r.hist) - 1 /\ r.attempt + 1 < max_retries
           \/ r.pc = "attempt" /\ r.attempt = Len(r.hist)

\* the value, in hundredths, the remote endpoint means by each numeral it sends
Meant(body) ==
    CASE body = <<"0", ".", "8", "5", "\n">> -> 85
      [] body = <<"0", ".", "5">> -> 50
      [] body = <<"0", ".", "1">> -> 10
      [] body = <<"0", ".", "7">> -> 70
      [] body = <<"0", ".", "3">> -> 30
      [] OTHER -> -1

\* C1: a request whose feature count is not 17 ends with status 400, the detail
\* names 17 and the actual count, and no remote call and no pause was made.
C1_BadCountRejected ==
    \A c \in Clients :
        LET r == requests[c]
        IN  (r.pc # "idle" /\ r.n # 17) =>
              /\ r.pc = "done"
              /\ r.result.status = 400
              /\ r.result.expected = 17
              /\ r.result.got = r.n
              /\ r.calls = 0
              /\ r.hist = <<>>
              /\ r.pauses = <<>>
              /\ r.ctl = ""

C1_Witness ==
    \E c \in Clients :
        requests[c].pc = "done" /\ requests[c].n = 16 /\ requests[c].result.status = 400

\* C2: when all 3 attempts were made and the last one was no success, the request
\* ends with status 503 and the message "Endpoint unavailable after retries".
C2_ExhaustionMessage ==
    \A c \in Clients :
        LET r == requests[c]
        IN  (r.pc = "done" /\ Len(r.hist) = max_retries /\ r.last.kind # "response") =>
              /\ r.result.status = 503
              /\ r.result.msg = "Endpoint unavailable after retries"

\* C3: a response slower than 5 time-units on attempt 1 or 2 is discarded (a
\* pause of exactly 1, then another attempt); on attempt 3 it is accepted and
\* returned; a returned response is never a slow one of attempt 1 or 2.
C3_SlowSuccess ==
    \A c \in Clients :
        LET r == requests[c]
            slow == r.last.kind = "response" /\ r.last.elapsed > 5
        IN  /\ (slow /\ NonFinal(c)) =>
                  Retrying(c) /\ r.pauses[Len(r.hist)] = 1
            /\ (slow /\ Len(r.hist) = 3) =>
                  /\ Returned(c)
                  /\ Meant(r.last.body) >= 0 =>
                        /\ r.result.status = 200
                        /\ r.result.prediction = Meant(r.last.body)
            /\ Returned(c) =>
                  /\ r.last.kind = "response"
                  /\ r.last.elapsed <= 5 \/ Len(r.hist) = 3

C3_Witness ==
    \E c \in Clients :
        LET r == requests[c]
        IN  /\ Returned(c)
            /\ r.hist = <<"response", "response", "response">>
            /\ r.pauses = <<1, 1>>
            /\ r.last.elapsed > 5
            /\ r.result.status = 200

\* C4: a ModelError on attempt 1 or 2 is followed by the backoff pause (1 after
\* attempt 1, 2 after attempt 2) and a retry; ModelError, ModelError and then a
\* response within 5 time-units give 200 with that response's value after
\* exactly 3 remote calls.
C4_RetryableBackoff ==
    \A c \in Clients :
        LET r == requests[c]
        IN  /\ \A i \in 1..Len(r.hist) :
                  (r.hist[i] = "ModelError" /\ i < 3) =>
                      /\ Len(r.pauses) >= i
                      /\ r.pauses[i] = (IF i = 1 THEN 1 ELSE 2)
                      /\ Len(r.hist) = i => Retrying(c)
            /\ (/\ r.hist = <<"ModelError", "ModelError", "response">>
                /\ r.last.elapsed <= 5
                /\ Meant(r.last.body) >= 0) =>
                  /\ Returned(c)
                  /\ r.result.status = 200
                  /\ r.result.prediction = Meant(r.last.body)
                  /\ r.calls = 3
                  /\ r.pauses = <<1, 2>>

C4_Witness ==
    \E c \in Clients :
        LET r == requests[c]
        IN  /\ r.hist = <<"ModelError", "ModelError", "response">>
            /\ r.last.elapsed <= 5
            /\ r.result.status = 200
            /\ r.result.prediction = 85

\* C5: a ClientError whose code is not ModelError ends the request at once, on
\* any attempt: status 503, the detail carries the code, and that call is the
\* last one, with no pause after it.
C5_NonRetryableFailsFast ==
    \A c \in Clients :
        LET r == requests[c]
        IN  (r.last.kind = "ClientError" /\ r.last.code # "ModelError") =>
              /\ Raised(c)
              /\ r.result.status = 503
              /\ r.result.msg = "Endpoint error:"
              /\ r.result.code = r.last.code
              /\ r.calls = Len(r.hist)
              /\ Len(r.pauses) = Len(r.hist) - 1

C5_Witness ==
    \E c \in Clients :
        LET r == requests[c]
        IN  /\ r.hist = <<"ValidationError">>
            /\ r.calls = 1
            /\ r.pauses = <<>>
            /\ r.result.status = 503

\* C6: an unclassified error on attempt 1 or 2 is followed by the backoff pause
\* (1, then 2) and a retry; on attempt 3 it ends the request with status 500
\* carrying the error text; the controller raises 500 in that case only.
C6_Unclassified ==
    \A c \in Clients :
        LET r == requests[c]
        IN  /\ \A i \in 1..Len(r.hist) :
                  (r.hist[i] = "Exception" /\ i < 3) =>
                      /\ Len(r.pauses) >= i
                      /\ r.pauses[i] = (IF i = 1 THEN 1 ELSE 2)
                      /\ Len(r.hist) = i => Retrying(c)
            /\ (Len(r.hist) = 3 /\ r.last.kind = "Exception") =>
                  /\ Raised(c)
                  /\ r.result.status = 500
                  /\ r.result.msg = "Unexpected error:"
                  /\ r.result.text = r.last.text
            /\ (Raised(c) /\ r.result.status = 500) =>
                  /\ Len(r.hist) = 3
                  /\ r.last.kind = "Exception"

C6_Witness ==
    \E c \in Clients :
        LET r == requests[c]
        IN  /\ r.hist = <<"Exception", "Exception", "Exception">>
            /\ r.pauses = <<1, 2>>
            /\ r.result.status = 500
            /\ r.result.text = "connection reset"

\* C7: in a 200 response the confidence is "high" exactly when prediction > 0.7,
\* "medium" exactly when 0.3 < prediction <= 0.7, "low" exactly when
\* prediction <= 0.3, and the prediction is the value the remote body denotes
\* (0.85 high, 0.5 medium, 0.1 low, 0.7 medium, 0.3 low).
C7_Confidence ==
    \A c \in Clients :
        LET r == requests[c]
            v == r.result.prediction
            l == r.result.confidence
        IN  /\ (Returned(c) /\ r.result.status = 200) =>
                  /\ l = "high" <=> v > 70
                  /\ l = "medium" <=> (30 < v /\ v <= 70)
                  /\ l = "low" <=> v <= 30
                  /\ v = Meant(r.last.body)
            /\ (Returned(c) /\ Meant(r.last.body) >= 0) =>
                  /\ r.result.status = 200
                  /\ r.n = 17
            /\ (Returned(c) /\ r.last.body = <<"0", ".", "8", "5", "\n">>) => l = "high"
            /\ (Returned(c) /\ r.last.body = <<"0", ".", "5">>) => l = "medium"
            /\ (Returned(c) /\ r.last.body = <<"0", ".", "1">>) => l = "low"

C7_Witness ==
    \E c \in Clients :
        /\ Returned(c)
        /\ requests[c].result.status = 200
        /\ requests[c].result.prediction = 70
        /\ requests[c].result.confidence = "medium"

C9_AllRetryableFail ==
    \A c \in Clients :
        LET r == requests[c]
        IN  r.hist = <<"ModelError", "ModelError", "ModelError">> =>
              /\ Raised(c)
              /\ r.result.status = 503
              /\ r.calls = 3
              /\ r.pauses = <<1, 2>>

C9_Witness ==
    \E c \in Clients :
        /\ requests[c].hist = <<"ModelError", "ModelError", "ModelError">>
        /\ requests[c].pc = "done"
        /\ requests[c].result.status = 503

\* C10: /health can be served in every state and always answers 200 "healthy"
\* with the version "v3.0-cicd"; a /health or /ready step changes neither the
\* requests (so makes no remote call) nor the configuration.
C10_HealthStatic ==
    /\ [](ENABLED health)
    /\ [](probe.op = "health" =>
            probe = Reply("health", 200, "healthy", "v3.0-cicd", "", ""))
    /\ [][(health \/ ready) => UNCHANGED <<requests, ENDPOINT_NAME, runtime>>]_vars
    /\ [][health => probe'.op = "health"]_vars

C10_Witness ==
    /\ probe.op = "health"
    /\ probe.status = "healthy"
    /\ \E c \in Clients : requests[c].pc = "sleep"
    /\ \E c \in Clients : requests[c].result.status = 503


\* C11: a response that took at most 5 time-units (5 included) on attempt k ends
\* the loop at once: it is the response returned, k remote calls were made in
\* all, and no pause follows it.
C11_FastSuccessReturns ==
    \A c \in Clients :
        LET r == requests[c]
        IN  (r.last.kind = "response" /\ r.last.elapsed <= 5) =>
              /\ Returned(c)
              /\ r.calls = Len(r.hist)
              /\ r.attempt = Len(r.hist) - 1
              /\ Len(r.pauses) = Len(r.hist) - 1
              /\ Meant(r.last.body) >= 0 =>
                    /\ r.result.status = 200
                    /\ r.result.prediction = Meant(r.last.body)

C11_Witness ==
    \E c \in Clients :
        LET r == requests[c]
        IN  /\ Returned(c)
            /\ r.hist = <<"ModelError", "response">>
            /\ r.last.elapsed = 5
            /\ r.calls = 2
            /\ r.pauses = <<1>>
            /\ r.result.status = 200


\* C12: whatever the remote calls did, the controller ends by returning a
\* response or by raising one of its own conditions, a 503 (endpoint error with
\* the remote code, or unavailable after retries) or a 500 (unexpected error
\* with the text): no error of a remote call leaves it untranslated.
C12_FailuresTranslated ==
    \A c \in Clients :
        LET r == requests[c]
        IN  /\ (r.pc = "done" /\ r.n = 17) => (Returned(c) \/ Raised(c))
            /\ Returned(c) => r.last.kind = "response"
            /\ Raised(c) =>
                  \/ /\ r.result.status = 503
                     /\ r.result.msg = "Endpoint error:"
                     /\ r.last.kind = "ClientError"
                     /\ r.result.code = r.last.code
                  \/ /\ r.result.status = 503
                     /\ r.result.msg = "Endpoint unavailable after retries"
                  \/ /\ r.result.status = 500
                     /\ r.result.msg = "Unexpected error:"
                     /\ r.last.kind = "Exception"
                     /\ r.result.text = r.last.text
            /\ (r.last.kind \in {"ClientError", "Exception"}) =>
                  (Raised(c) \/ Retrying(c))

C12_Witness ==
    \E c, d \in Clients :
        /\ Raised(c)
        /\ requests[c].last.kind = "Exception"
        /\ requests[c].result.status = 500
        /\ Raised(d)
        /\ requests[d].last.kind = "ClientError"
        /\ requests[d].result.status = 503


\* C13: when the controller returns a response whose body is no number, the
\* request ends with an internal error (500): never with status 200, and with
\* no prediction value or confidence label put in its place.
C13_UnparseableBody ==
    \A c \in Clients :
        LET r == requests[c]
        IN  (Returned(c) /\ r.last.body = <<"e", "r", "r">>) =>
              /\ r.result.status # 200
              /\ r.result.status = 500
              /\ r.result.msg = "Internal Server Error"
              /\ r.result.confidence = ""
              /\ r.result.prediction = 0

C13_Witness ==
    \E c \in Clients :
        /\ Returned(c)
        /\ requests[c].last.body = <<"e", "r", "r">>
        /\ requests[c].result.status = 500


\* C14: while the request of one client is in a pause of its retry loop, every
\* other request can take its next step (a new prediction can start, a running
\* one can call the endpoint and go on to its retry or to its end, a pausing
\* one can wake up) and /health and /ready
\* can be served; only the pausing request itself cannot go on before its
\* pause ends, and the steps of the others leave it pausing.
C14_OthersCanStep ==
    \A c \in Clients :
        requests[c].pc = "sleep" =>
            /\ ENABLED health
            /\ ENABLED ready
            /\ ~ ENABLED invoke_endpoint(c)
            /\ ~ ENABLED predict(c)
            /\ \A d \in Clients \ {c} :
                  /\ requests[d].pc = "idle" => ENABLED predict(d)
                  /\ requests[d].pc = "attempt" =>
                        /\ ENABLED call_with_outcome(d, Outcome("ClientError", 0, <<>>, "ModelError", ""))
                        /\ ENABLED call_with_outcome(d, Outcome("ClientError", 0, <<>>, "ValidationError", ""))
                  /\ requests[d].pc = "sleep" => ENABLED sleep_returns(d)

C14_PauseBlocksOnlyItself ==
    /\ []C14_OthersCanStep
    /\ [][\A c \in Clients :
            (requests[c].pc = "sleep" /\ requests'[c] # requests[c]) =>
                /\ requests'[c] = AfterSleep(requests[c])
                /\ \A d \in Clients \ {c} : requests'[d] = requests[d]]_vars

C14_Witness ==
    \E c, d \in Clients :
        /\ c # d
        /\ requests[c].pc = "sleep"
        /\ Len(requests[c].hist) = 1
        /\ requests[d].pc = "done"
        /\ requests[d].calls = 3
        /\ requests[d].result.status = 200
        /\ probe.op = "ready"


\* what a finished request was given: its feature count and what its calls did
SameInputs(c, d) ==
    /\ requests[c].pc = "done"
    /\ requests[d].pc = "done"
    /\ requests[c].n = requests[d].n
    /\ requests[c].hist = requests[d].hist
    /\ requests[c].last = requests[d].last

\* C15: no step (health, ready, predict, a loop iteration that returns, raises
\* or pauses, the end of a pause) changes the endpoint identity or the client
\* handle; a step of one request changes no other request, and two requests
\* given the same inputs end the same way whatever else ran before or beside
\* them.
C15_ConfigReadOnly ==
    /\ [][ENDPOINT_NAME' = ENDPOINT_NAME /\ runtime' = runtime]_vars
    /\ [][\A c \in Clients :
            requests'[c] # requests[c] =>
                \A d \in Clients \ {c} : requests'[d] = requests[d]]_vars
    /\ [](\A c, d \in Clients :
            SameInputs(c, d) =>
                /\ requests[c].result = requests[d].result
                /\ requests[c].pauses = requests[d].pauses
                /\ requests[c].calls = requests[d].calls
                /\ requests[c].ctl = requests[d].ctl)

C15_Witness ==
    \E c, d \in Clients :
        /\ c # d
        /\ requests[c].result.status = 200
        /\ requests[d].result.status = 500
        /\ requests[d].calls = 3
        /\ probe.op = "ready"
        /\ probe.code = 200
        /\ ENDPOINT_NAME = "shoppers-xgboost-endpoint"
        /\ runtime = "sagemaker-runtime"


\* how far the request of c has got: every step of it moves this up
Progress(c) ==
    LET r == requests[c]
    IN  CASE r.pc = "idle"    -> 0
          [] r.pc = "attempt" -> 2 * Len(r.hist) + 1
          [] r.pc = "sleep"   -> 2 * Len(r.hist)
          [] r.pc = "done"    -> 2 * max_retries + 1

\* the outcome of an attempt after which the loop goes round again
Retryable(o) ==
    \/ o.kind = "ClientError" /\ o.code = "ModelError"
    \/ o.kind = "Exception"
    \/ o.kind = "response" /\ o.elapsed > 5

C16_Bounded ==
    \A c \in Clients :
        LET r == requests[c]
        IN  /\ r.calls <= 3
            /\ r.calls = Len(r.hist)
            /\ (r.pc = "done" /\ r.n = 17) =>
                  /\ r.calls >= 1
                  /\ Returned(c) \/ Raised(c)
                  /\ r.result.status \in {200, 500, 503}
            /\ r.pc = "sleep" => ENABLED sleep_returns(c)
            /\ r.pc = "attempt" =>
                  ENABLED call_with_outcome(c, Outcome("ClientError", 0, <<>>, "ModelError", ""))

\* C16: the retry loop of a request always ends, by a returned response, a 503
\* or a 500, after at least 1 and at most 3 remote calls: a running request can
\* always take its next step, each step moves it on, and it is over after 6
\* steps at most; an attempt after the first is made only when the attempt
\* before it ended in a ModelError, an unclassified error or a discarded slow
\* response.
C16_LoopTerminates ==
    /\ []C16_Bounded
    /\ [][\A c \in Clients :
            requests'[c] # requests[c] => Progress(c)' > Progress(c)]_vars
    /\ [][\A c \in Clients :
            (Len(requests'[c].hist) > Len(requests[c].hist) /\ Len(requests[c].hist) >= 1) =>
                /\ Retryable(requests[c].last)
                /\ Len(requests'[c].hist) = Len(requests[c].hist) + 1]_vars

C16_Witness ==
    \E c, d \in Clients :
        /\ Returned(c)
        /\ requests[c].calls = 1
        /\ Raised(d)
        /\ requests[d].calls = 3
        /\ requests[d].hist = <<"response", "Exception", "ModelError">>


RECURSIVE SumSeq(_)
SumSeq(s) == IF s = <<>> THEN 0 ELSE Head(s) + SumSeq(Tail(s))

\* C17: a finished request has made one pause fewer than remote calls (none
\* after its last attempt, one between any two consecutive attempts); a request
\* still running has made as many pauses as calls only while it is between two
\* attempts; the pauses of one request add up to 3 time-units at most.
C17_PausesBetweenAttempts ==
    \A c \in Clients :
        LET r == requests[c]
        IN  /\ (r.pc = "done" /\ r.calls >= 1) => Len(r.pauses) = r.calls - 1
            /\ (r.pc = "done" /\ r.calls = 0) => r.pauses = <<>>
            /\ r.pc \in {"sleep", "attempt"} =>
                  /\ Len(r.pauses) = r.calls
                  /\ r.calls < 3
            /\ Len(r.pauses) <= 2
            /\ \A i \in 1..Len(r.pauses) : r.pauses[i] >= 1
            /\ SumSeq(r.pauses) <= 3

C17_Witness ==
    \E c \in Clients :
        /\ requests[c].pc = "done"
        /\ requests[c].calls = 3
        /\ requests[c].pauses = <<1, 2>>
        /\ SumSeq(requests[c].pauses) = 3


\* C18: a 200 response carries the value of the response of the last remote
\* call of its request: the step that returns is the step of that call, and the
\* prediction is the number in that call's body, never the body of an earlier
\* attempt (discarded as slow, or followed by an error).
C18_LastResponseReturned ==
    /\ [](\A c \in Clients :
            (Returned(c) /\ requests[c].result.status = 200) =>
                /\ requests[c].last.kind = "response"
                /\ requests[c].calls = Len(requests[c].hist)
                /\ requests[c].hist[Len(requests[c].hist)] = "response"
                /\ requests[c].result.prediction = Meant(requests[c].last.body))
    /\ [][\A c \in Clients :
            (requests'[c].ctl = "returned" /\ requests[c].ctl # "returned") =>
                /\ Len(requests'[c].hist) = Len(requests[c].hist) + 1
                /\ requests'[c].calls = requests[c].calls + 1
                /\ requests'[c].last.kind = "response"
                /\ requests'[c].result.status = 200 =>
                      requests'[c].result.prediction = Meant(requests'[c].last.body)]_vars

C18_Witness ==
    \E c \in Clients :
        /\ Returned(c)
        /\ requests[c].hist = <<"response", "Exception", "response">>
        /\ requests[c].last.body = <<"0", ".", "1">>
        /\ requests[c].result.status = 200
        /\ requests[c].result.prediction = 10

====
